---- MODULE Spec2Model ----
(***************************************************************************)
(* A model of mcp_server/server.py: the markdown-to-file-record parser     *)
(* (parse_input_md_sections), the writer (create_files_from_parsed_data),  *)
(* and the tool entry points around them (generate_files_from_markdown,    *)
(* handle_call_tool).                                                      *)
(*                                                                         *)
(* Text is modelled character by character: a Python str is a sequence of  *)
(* one-character atoms.  The four characters of the change-description     *)
(* heading are written hen, kou, nai, you; a backtick is written tick.     *)
(***************************************************************************)
EXTENDS Integers, Sequences, FiniteSets, TLC

(***************************************************************************)
(* Bounds of the model.                                                    *)
(***************************************************************************)
\* Sections per document, for documents of more than one section.
MaxSections == 3
\* In how many features a single-section document may differ from the plain one.
MaxDeviations == 2
\* Longest run of backticks tried as a fence token.
MaxTicks == 4
\* Records per direct call of the writer.
MaxRecords == 2

(***************************************************************************)
(* Characters and the literal tokens of the source.                        *)
(***************************************************************************)
NL == <<"\n">>
\* str.strip() and the regex class \s
Whitespace == {" ", "\n", "\t"}
\* the regex class [a-zA-Z0-9_.-], restricted to the alphabet of the model
LangChars == {"a", "b", "d", "p", "q", "t", "u", "x", "y", "z", "1", "_", ".", "-"}
\* the top header token: two hashes, a space, a dot, a slash
H2 == <<"#", "#", " ", ".", "/">>
\* the marker token: three hashes, a space, a dot, a slash
H3 == <<"#", "#", "#", " ", ".", "/">>
\* the fence token: three backticks
FENCE == <<"tick", "tick", "tick">>
\* the horizontal rule token: three underscores
RULE == <<"_", "_", "_">>
\* three hashes, a space and the four characters of the heading
CHANGE_HEADING == <<"#", "#", "#", " ", "hen", "kou", "nai", "you">>

Min(S) == CHOOSE x \in S : \A y \in S : x <= y
Max(S) == CHOOSE x \in S : \A y \in S : x >= y

\* s[i..] starts with t (i is 1-based)
StartsWithAt(s, i, t) ==
    /\ i >= 1
    /\ i + Len(t) - 1 <= Len(s)
    /\ \A k \in 1..Len(t) : s[i + k - 1] = t[k]

\* regex ^ under re.MULTILINE: the start of the string or just after a newline
LineStart(s, i) == i = 1 \/ s[i - 1] = "\n"

\* regex $ without re.MULTILINE at position i (the next character is s[i]):
\* the end of the string, or just before a newline that ends the string
AtDollar(s, i) == i = Len(s) + 1 \/ (i = Len(s) /\ s[i] = "\n")

\* str.strip()
strip(s) ==
    LET keep == {i \in 1..Len(s) : s[i] \notin Whitespace}
    IN  IF keep = {} THEN <<>> ELSE SubSeq(s, Min(keep), Max(keep))

\* str.find(): the first index of t in s, 0 when absent (-1 in the source)
Find(s, t) ==
    LET hits == {i \in 1..Len(s) : StartsWithAt(s, i, t)}
    IN  IF hits = {} THEN 0 ELSE Min(hits)

(***************************************************************************)
(* parse_input_md_sections                                                 *)
(***************************************************************************)
\* the zero-width matches of (?=(?:^## \./|^___)) under re.MULTILINE
SplitPointsUnanchored(md) ==
    {i \in 1..Len(md) : StartsWithAt(md, i, H2) \/ StartsWithAt(md, i, RULE)}
SplitPoints(md) ==
    {i \in 1..Len(md) :
        LineStart(md, i) /\ (StartsWithAt(md, i, H2) \/ StartsWithAt(md, i, RULE))}

RECURSIVE SplitAt(_, _, _)
\* the pieces of md from index from on, cut before each point of pts
SplitAt(md, from, pts) ==
    IF pts = {} THEN <<SubSeq(md, from, Len(md))>>
    ELSE LET p == Min(pts)
         IN  <<SubSeq(md, from, p - 1)>> \o SplitAt(md, p, pts \ {p})

\* re.split(...): an empty match splits, also at the start of the string
re_split(md) == SplitAt(md, 1, SplitPoints(md))

\* the filepath regex of line 185 under re.MULTILINE: the starts of the lines
\* that hold the top header token and at least one more character
FilepathMatches(sec) ==
    {i \in 1..Len(sec) :
        /\ LineStart(sec, i)
        /\ StartsWithAt(sec, i, H2)
        /\ i + Len(H2) <= Len(sec)
        /\ sec[i + Len(H2)] # "\n"}

\* the index of the last character of the line that holds index i
LineEnd(s, i) ==
    LET nls == {j \in i..Len(s) : s[j] = "\n"}
    IN  IF nls = {} THEN Len(s) ELSE Min(nls) - 1

\* filepath_match.group(1)
FilepathGroup(sec) ==
    LET i == Min(FilepathMatches(sec))
    IN  SubSeq(sec, i + Len(H2), LineEnd(sec, i + Len(H2)))

\* The lookahead of the regex of line 199 at index e (sec[e] is the newline):
\* a newline, then the marker token, a fence token or the end of the string
ChangeDescStop(sec, e) ==
    /\ sec[e] = "\n"
    /\ \/ StartsWithAt(sec, e + 1, H3)
       \/ StartsWithAt(sec, e + 1, FENCE)
       \/ AtDollar(sec, e + 1)

\* the indices where the change-description regex (line 199) matches under re.DOTALL
ChangeDescMatches(sec) ==
    {i \in 1..Len(sec) :
        /\ StartsWithAt(sec, i, CHANGE_HEADING \o NL)
        /\ \E e \in (i + Len(CHANGE_HEADING) + 1)..Len(sec) : ChangeDescStop(sec, e)}

\* change_desc_match.group(1): non-greedy, so up to the first stop
ChangeDescGroup(sec) ==
    LET i == Min(ChangeDescMatches(sec))
        b == i + Len(CHANGE_HEADING) + 1
        e == Min({j \in b..Len(sec) : ChangeDescStop(sec, j)})
    IN  SubSeq(sec, b, e - 1)

\* change_desc (lines 196-203)
ChangeDesc(sec) ==
    IF ChangeDescMatches(sec) = {} THEN <<>> ELSE strip(ChangeDescGroup(sec))

\* the index of the newline that ends the opening fence line of cand, 0 when
\* cand does not start with a fence token, a run of LangChars and a newline
OpenFenceEndNoTag(cand) ==
    IF StartsWithAt(cand, 1, FENCE \o NL) THEN Len(FENCE) + 1 ELSE 0
OpenFenceEnd(cand) ==
    IF ~StartsWithAt(cand, 1, FENCE) THEN 0
    ELSE LET rest == {j \in (Len(FENCE) + 1)..Len(cand) : cand[j] \notin LangChars}
         IN  IF rest = {} THEN 0
             ELSE IF cand[Min(rest)] = "\n" THEN Min(rest) ELSE 0

\* the closing part of the regex of line 234 at index e (cand[e] is the
\* newline): a newline, a fence token, then whitespace up to the end
CloseFenceAt(cand, e) ==
    /\ cand[e] = "\n"
    /\ StartsWithAt(cand, e + 1, FENCE)
    /\ \A k \in (e + Len(FENCE) + 1)..Len(cand) : cand[k] \in Whitespace

\* code_block_regex.search(content_candidate) matches
CodeBlockMatch(cand) ==
    /\ OpenFenceEnd(cand) # 0
    /\ \E e \in (OpenFenceEnd(cand) + 1)..Len(cand) : CloseFenceAt(cand, e)

\* code_block_match.group(2): non-greedy, so up to the first closing fence
\* that reaches the end of cand
CodeBlockGroup(cand) ==
    LET b == OpenFenceEnd(cand) + 1
        e == Min({j \in b..Len(cand) : CloseFenceAt(cand, j)})
    IN  SubSeq(cand, b, e - 1)

(***************************************************************************)
(* Path and text helpers of the writer.                                    *)
(***************************************************************************)
RECURSIVE Join(_, _)
\* sep.join(lines)
Join(lines, sep) ==
    IF lines = <<>> THEN <<>>
    ELSE IF Len(lines) = 1 THEN lines[1]
    ELSE lines[1] \o sep \o Join(Tail(lines), sep)

\* os.path.join(a, b) on a POSIX host
path_join(a, b) ==
    IF StartsWithAt(b, 1, <<"/">>) THEN b
    ELSE IF a = <<>> \/ a[Len(a)] = "/" THEN a \o b
    ELSE a \o <<"/">> \o b

\* os.path.dirname(p) on a POSIX host
dirname(p) ==
    LET slashes == {i \in 1..Len(p) : p[i] = "/"}
        head == IF slashes = {} THEN <<>> ELSE SubSeq(p, 1, Max(slashes))
        solid == {i \in 1..Len(head) : head[i] # "/"}
    IN  IF solid = {} THEN head ELSE SubSeq(head, 1, Max(solid))

\* the fixed texts of the source, each written as one atom
NOTHING_MSG == <<"msg_nothing_to_create">>
CREATED_MSG == <<"msg_created_or_updated">>
SEPARATOR == <<"_", "_", "_">>
DESC_HEADER == <<"#", "#", " ", "hen", "kou", "nai", "you">>
COMPLETED_MSG == <<"msg_process_completed">>
HeaderLine(relative_filepath) == <<"#", " ">> \o relative_filepath
ErrorLine(filepath, e) ==
    <<"msg_file">> \o filepath \o <<"msg_error_while_writing", ":", " ", e>>
NotFoundMsg(input_file_path) ==
    <<"msg_input_file">> \o input_file_path \o <<"msg_not_found">>
NothingParsedMsg(input_file_path) ==
    input_file_path \o <<"msg_nothing_parsed">>
ErrorOccurred(text) == <<"msg_error_occurred", ":", " ">> \o text
RootCreatedMsg(root_directory) ==
    <<"msg_root_created", ":", " ">> \o root_directory \o NL
RootExistsMsg(root_directory) ==
    <<"msg_root">> \o root_directory \o <<"msg_already_exists">> \o NL

(***************************************************************************)
(* The file system the writer acts on: the set of directories and the map  *)
(* from file paths to contents.  The calls of the source that act on it    *)
(* are given by the outcomes they can have.                                *)
(***************************************************************************)
\* directories that exist whatever the run does
AlwaysDirs == {<<>>, <<".">>, <<"/">>}
DirExists(dirs, d) == d \in dirs \cup AlwaysDirs

\* d and the directories above it, the shortest first
AncestorSeq(d) ==
    LET ends == {i \in 1..Len(d) :
                    /\ d[i] # "/"
                    /\ (i = Len(d) \/ d[i + 1] = "/")}
        RECURSIVE Chain(_)
        Chain(S) == IF S = {} THEN <<>>
                    ELSE <<SubSeq(d, 1, Min(S))>> \o Chain(S \ {Min(S)})
    IN  Chain(ends)

\* the elements of q that are not existing directories, in order
RECURSIVE Missing(_, _)
Missing(q, dirs) ==
    IF q = <<>> THEN <<>>
    ELSE (IF DirExists(dirs, Head(q)) THEN <<>> ELSE <<Head(q)>>)
         \o Missing(Tail(q), dirs)

Range(q) == {q[i] : i \in 1..Len(q)}

\* os.makedirs(d, exist_ok=True): every outcome it can have
MakeDirsOutcomes(dirs, files, d) ==
    LET chain == AncestorSeq(d)
        missing == Missing(chain, dirs)
        blocked == {i \in 1..Len(missing) : missing[i] \in DOMAIN files}
        reach == IF blocked = {} THEN Len(missing) ELSE Min(blocked) - 1
    IN  (IF blocked = {}
         THEN {[dirs |-> dirs \cup Range(missing), status |-> "ok"]}
         ELSE {})
        \cup {[dirs |-> dirs \cup Range(SubSeq(missing, 1, k)), status |-> "failed"] :
                 k \in 0..(IF blocked = {} THEN reach - 1 ELSE reach)}

\* f.write(content) on a file opened with mode w: the whole file is replaced
WriteFileAppend(files, filepath, content) ==
    IF filepath \in DOMAIN files
    THEN [files EXCEPT ![filepath] = @ \o content]
    ELSE (filepath :> content) @@ files
WriteFile(files, filepath, content) ==
    (filepath :> content) @@ files

\* open(filepath, w) and f.write(content): every outcome they can have
OpenWriteOutcomes(dirs, files, filepath, content) ==
    IF dirname(filepath) \in DOMAIN files
    THEN {[files |-> files, err |-> "ENOTDIR"]}
    ELSE IF ~DirExists(dirs, dirname(filepath))
    THEN {[files |-> files, err |-> "ENOENT"]}
    ELSE IF DirExists(dirs, filepath)
    THEN {[files |-> files, err |-> "EISDIR"]}
    ELSE {[files |-> WriteFile(files, filepath, content), err |-> "none"],
          [files |-> files, err |-> "EACCES"]}
         \cup {[files |-> WriteFile(files, filepath, SubSeq(content, 1, n)),
                 err |-> "ENOSPC"] : n \in 0..(Len(content) - 1)}

\* file_info.get(change_description) is truthy (line 323)
HasChangeDescriptionAlways(file_info) == TRUE
HasChangeDescription(file_info) == file_info.change_description # <<>>

\* the lines appended for a record that was written (lines 320-326)
SuccessBlock(file_info, filepath) ==
    <<HeaderLine(file_info.filepath), CREATED_MSG, filepath>>
    \o (IF HasChangeDescription(file_info)
         THEN <<DESC_HEADER, file_info.change_description, SEPARATOR>>
         ELSE <<>>)

\* not parsed_data (line 286)
NothingToCreate(parsed_data) == parsed_data = <<>>

\* The loop goes on with the next record, whether or not this one failed
\* (the try of line 313 is inside the loop of line 295).
NextRecordStopOnFailure(i, n, failed) == IF failed THEN n + 1 ELSE i + 1
NextRecord(i, n, failed) == i + 1

NoRecord(outcome) ==
    [outcome |-> outcome, filepath |-> <<>>, content |-> <<>>,
     change_description |-> <<>>]

\* the test before the append (line 255)
KeepRecordAlways(current_filepath, content) == TRUE
KeepRecord(current_filepath, content) ==
    current_filepath # <<>> /\ content # <<>>

\* content_candidate (lines 224-226)
ContentCandidate(sec, pos, marker) ==
    strip(SubSeq(sec, pos + Len(marker), Len(sec)))

\* One pass of the loop body (lines 177-263) over one piece of the split.
ParseSection(raw) ==
    LET section_block == strip(raw)
    IN  IF section_block = <<>> THEN NoRecord("empty_section")
        ELSE IF FilepathMatches(section_block) = {} THEN NoRecord("not_a_file")
        ELSE
          LET current_filepath == strip(FilepathGroup(section_block))
              change_desc == ChangeDesc(section_block)
              filepath_header_marker == H3 \o current_filepath
              filepath_header_pos == Find(section_block, filepath_header_marker)
              content_candidate ==
                  ContentCandidate(section_block, filepath_header_pos,
                                   filepath_header_marker)
          IN  IF filepath_header_pos = 0 THEN NoRecord("warn_no_marker")
              ELSE IF ~CodeBlockMatch(content_candidate)
                   THEN NoRecord("warn_no_code_block")
              ELSE
                LET content == strip(CodeBlockGroup(content_candidate))
                IN  IF KeepRecord(current_filepath, content)
                    THEN [outcome |-> "record",
                          filepath |-> current_filepath,
                          content |-> content,
                          change_description |-> change_desc]
                    ELSE NoRecord("empty_content")

FileInfo(r) ==
    [filepath |-> r.filepath, content |-> r.content,
     change_description |-> r.change_description]

RECURSIVE ParseAll(_)
ParseAll(sections) ==
    IF sections = <<>> THEN <<>>
    ELSE LET r == ParseSection(Head(sections))
         IN  (IF r.outcome = "record" THEN <<FileInfo(r)>> ELSE <<>>)
             \o ParseAll(Tail(sections))

\* the whole function (lines 152-266)
parse_input_md_sections(md_content) == ParseAll(re_split(md_content))

(***************************************************************************)
(* The documents the parser is run on.  A document is a list of sections,  *)
(* each built from the features below; the text is assembled character by  *)
(* character by SectionText.                                               *)
(***************************************************************************)
Paths == {<<"a">>, <<"d", "/", "b">>}
LeadKinds == {"none", "blank", "rule", "rule_text"}
DescKinds == {"none", "text", "lines", "adjacent", "then_fence", "fence_first"}
MarkerKinds == {"ok", "blank", "missing", "other", "longer"}
Langs == {<<>>, <<"p", "y">>, <<"t", "-", "1", ".", "x", "_">>}
\* the text between the fence lines, with its trimmed form written out
Inners ==
    { [raw |-> <<"x">>, trimmed |-> <<"x">>],
      [raw |-> <<" ", "x", "\n", "\n", "y", "\t">>, trimmed |-> <<"x", "\n", "\n", "y">>],
      [raw |-> <<>>, trimmed |-> <<>>],
      [raw |-> <<" ">>, trimmed |-> <<>>] }
Forms ==
    {"ok", "close_ws", "unclosed", "no_fence", "text_before", "text_after",
     "two_blocks"}

SectionSpecs ==
    [lead : LeadKinds, path : Paths, desc : DescKinds, marker : MarkerKinds,
     ticks : 3..MaxTicks, lang : Langs, inner : Inners, form : Forms]

PlainSection ==
    [lead |-> "none", path |-> <<"a">>, desc |-> "none", marker |-> "ok",
     ticks |-> 3, lang |-> <<>>, inner |-> [raw |-> <<"x">>, trimmed |-> <<"x">>],
     form |-> "ok"]

Deviations(s) ==
    Cardinality({f \in DOMAIN s : s[f] # PlainSection[f]})

SingleSpecs == {s \in SectionSpecs : Deviations(s) <= MaxDeviations}

\* the sections that documents of several sections are made of
CorePool ==
    { PlainSection,
      [PlainSection EXCEPT !.path = <<"d", "/", "b">>, !.desc = "text",
                           !.lang = <<"p", "y">>, !.lead = "rule",
                           !.inner = [raw |-> <<" ", "x", "\n", "\n", "y", "\t">>,
                                      trimmed |-> <<"x", "\n", "\n", "y">>]],
      [PlainSection EXCEPT !.marker = "missing"],
      [PlainSection EXCEPT !.form = "unclosed", !.lead = "rule_text"],
      [PlainSection EXCEPT !.inner = [raw |-> <<" ">>, trimmed |-> <<>>],
                           !.path = <<"d", "/", "b">>],
      [PlainSection EXCEPT !.form = "no_fence", !.marker = "blank"] }

Plans ==
    {<<s>> : s \in SingleSpecs}
    \cup UNION {[1..n -> CorePool] : n \in 2..MaxSections}

RECURSIVE Ticks(_)
Ticks(n) == IF n = 0 THEN <<>> ELSE <<"tick">> \o Ticks(n - 1)

LeadText(s) ==
    CASE s.lead = "none" -> <<>>
      [] s.lead = "blank" -> NL
      [] s.lead = "rule" -> RULE \o NL
      [] s.lead = "rule_text" -> RULE \o NL \o <<"t">> \o NL

DescText(s) ==
    CASE s.desc = "none" -> <<>>
      [] s.desc = "text" -> CHANGE_HEADING \o NL \o <<"t">> \o NL \o NL
      [] s.desc = "lines" ->
            CHANGE_HEADING \o NL \o <<" ", "t", "\n", "u", " ">> \o NL
      [] s.desc = "adjacent" -> CHANGE_HEADING \o NL
      [] s.desc = "then_fence" ->
            CHANGE_HEADING \o NL \o <<"t">> \o NL
            \o FENCE \o NL \o <<"q">> \o NL \o FENCE \o NL
      [] s.desc = "fence_first" ->
            CHANGE_HEADING \o NL \o FENCE \o NL \o <<"q">> \o NL \o FENCE \o NL

MarkerText(s) ==
    CASE s.marker = "ok" -> H3 \o s.path \o NL
      [] s.marker = "blank" -> H3 \o s.path \o NL \o NL
      [] s.marker = "missing" -> <<>>
      [] s.marker = "other" -> H3 \o <<"z">> \o NL
      [] s.marker = "longer" -> H3 \o s.path \o <<"z">> \o NL

FencedText(s, closing) ==
    Ticks(s.ticks) \o s.lang \o NL \o s.inner.raw \o NL \o closing

BodyText(s) ==
    CASE s.form = "ok" -> FencedText(s, Ticks(s.ticks) \o NL)
      [] s.form = "close_ws" -> FencedText(s, Ticks(s.ticks) \o <<" ", "\t">> \o NL)
      [] s.form = "unclosed" -> FencedText(s, <<>>)
      [] s.form = "no_fence" -> s.inner.raw \o NL
      [] s.form = "text_before" ->
            <<"t">> \o NL \o FencedText(s, Ticks(s.ticks) \o NL)
      [] s.form = "text_after" ->
            FencedText(s, Ticks(s.ticks) \o NL) \o <<"t">> \o NL
      [] s.form = "two_blocks" ->
            FencedText(s, Ticks(s.ticks) \o NL)
            \o FencedText(s, Ticks(s.ticks) \o NL)

SectionText(s) ==
    LeadText(s) \o H2 \o s.path \o NL \o DescText(s) \o MarkerText(s) \o BodyText(s)

RECURSIVE PlanText(_)
PlanText(plan) ==
    IF plan = <<>> THEN <<>> ELSE SectionText(Head(plan)) \o PlanText(Tail(plan))

\* The section has the marker of its own path, directly followed by one fenced
\* block of three backticks that closes, and text between the fence lines.
WellFormed(s) ==
    /\ s.marker \in {"ok", "blank"}
    /\ s.form \in {"ok", "close_ws"}
    /\ s.ticks = 3
    /\ s.inner.trimmed # <<>>

\* The section lacks the marker, or its fence is absent or malformed, or the
\* text between the fence lines of its one block trims to nothing.  A section
\* with two fenced blocks is left to C11: what lies between its first and its
\* last fence line is not the text of one block.
BadSection(s) ==
    \/ s.marker \in {"missing", "other", "longer"}
    \/ s.form \in {"unclosed", "no_fence", "text_before", "text_after"}
    \/ (s.form # "two_blocks" /\ s.inner.trimmed = <<>>)

\* the change description the section is written with
WrittenDesc(s) ==
    CASE s.desc = "text" -> <<"t">>
      [] s.desc = "lines" -> <<"t", "\n", "u">>
      [] s.desc = "then_fence" -> <<"t">>
      [] OTHER -> <<>>

VARIABLES
    pc,               \* the position of the running call
    call,             \* which entry point the run calls: parser, writer or tool
    plan,             \* the sections the document was written from
    md_content,       \* the text handed to parse_input_md_sections
    all_sections,     \* line 173
    sec_i,            \* the loop index of line 176 (1-based)
    outcomes,         \* per piece of the split: what the loop body did with it
    files_to_create,  \* line 168
    name,             \* handle_call_tool: the tool name
    arguments,        \* handle_call_tool: the arguments, or None
    fs_dirs,          \* the directories on disk
    fs_files,         \* the files on disk: path -> content
    fs0,              \* the disk as it was when the call started
    parsed_data,      \* create_files_from_parsed_data: the records
    base_dir,         \* create_files_from_parsed_data: the base directory
    rec_i,            \* the loop index of line 295 (1-based)
    results,          \* line 290: the lines of the report
    created_files,    \* line 292
    failed_files,     \* line 293
    io_log,           \* per record: what makedirs and the write did
    creation_result,  \* what create_files_from_parsed_data returned
    output_msg,       \* lines 373-379
    gen_outcome,      \* which return of generate_files_from_markdown was taken
    gen_result,       \* what generate_files_from_markdown returned
    tool_result       \* the CallToolResult of handle_call_tool

parserVars == <<plan, md_content, all_sections, sec_i, outcomes, files_to_create>>
fsVars == <<fs_dirs, fs_files, fs0>>
writerVars ==
    <<parsed_data, base_dir, rec_i, results, created_files, failed_files, io_log,
      creation_result>>
toolVars == <<name, arguments, output_msg, gen_outcome, gen_result, tool_result>>
vars == <<pc, call, parserVars, fsVars, writerVars, toolVars>>

NoText == <<"no_value">>

WriterIdle ==
    /\ parsed_data = <<>>
    /\ base_dir = <<".">>
    /\ rec_i = 0
    /\ results = <<>>
    /\ created_files = 0
    /\ failed_files = 0
    /\ io_log = <<>>
    /\ creation_result = NoText

ToolIdle ==
    /\ name = "none"
    /\ arguments = [given |-> FALSE, input_file_path |-> <<>>,
                    root_directory |-> <<>>]
    /\ output_msg = NoText
    /\ gen_outcome = "none"
    /\ gen_result = [raised |-> FALSE, text |-> NoText]
    /\ tool_result = [isError |-> FALSE, text |-> NoText]

ParserIdle ==
    /\ all_sections = <<>>
    /\ sec_i = 0
    /\ outcomes = <<>>
    /\ files_to_create = <<>>

(***************************************************************************)
(* The parser, run on its own, one loop pass per step.                     *)
(***************************************************************************)
ParseInit ==
    /\ pc = "p_start"
    /\ call = "parser"
    /\ plan \in Plans
    /\ md_content = PlanText(plan)
    /\ ParserIdle
    /\ fs_dirs = {}
    /\ fs_files = <<>>
    /\ fs0 = [dirs |-> {}, files |-> <<>>]
    /\ WriterIdle
    /\ ToolIdle

\* lines 165-174
PSplit ==
    /\ pc = "p_start"
    /\ all_sections' = re_split(md_content)
    /\ sec_i' = 1
    /\ pc' = "p_loop"
    /\ UNCHANGED <<call, plan, md_content, outcomes, files_to_create>>
    /\ UNCHANGED <<fsVars, writerVars, toolVars>>

\* lines 176-263: one pass of the loop
PSection ==
    /\ pc = "p_loop"
    /\ sec_i <= Len(all_sections)
    /\ LET r == ParseSection(all_sections[sec_i])
       IN  /\ outcomes' = Append(outcomes, r.outcome)
           /\ files_to_create' =
                 IF r.outcome = "record"
                 THEN Append(files_to_create, FileInfo(r))
                 ELSE files_to_create
    /\ sec_i' = sec_i + 1
    /\ UNCHANGED <<pc, call, plan, md_content, all_sections>>
    /\ UNCHANGED <<fsVars, writerVars, toolVars>>

\* lines 265-266
PReturn ==
    /\ pc = "p_loop"
    /\ sec_i > Len(all_sections)
    /\ pc' = "p_done"
    /\ UNCHANGED <<call, parserVars, fsVars, writerVars, toolVars>>

ParseNext == PSplit \/ PSection \/ PReturn

SpecParse == ParseInit /\ [][ParseNext]_vars

(***************************************************************************)
(* The writer and the tool call.                                           *)
(***************************************************************************)
ROOT == <<"r">>
INPUT == <<"i", "n">>
OLD_FILE == <<"r", "/", "a">>
TOOL_NAME == "generate_files_from_markdown"

\* the records the writer is called with directly
RecordPool ==
    { [filepath |-> <<"a">>, content |-> <<"x">>, change_description |-> <<>>],
      [filepath |-> <<"a">>, content |-> <<"y", "\n", "z">>,
       change_description |-> <<"t">>],
      [filepath |-> <<"d", "/", "b">>, content |-> <<"x">>,
       change_description |-> <<"t", "\n", "u">>],
      [filepath |-> <<"d">>, content |-> <<"y", "\n", "z">>,
       change_description |-> <<>>],
      [filepath |-> <<"/", "x">>, content |-> <<"y", "\n", "z">>,
       change_description |-> <<>>] }

RecordLists == UNION {[1..n -> RecordPool] : n \in 0..MaxRecords}

\* the sections the documents of the tool call are made of
ToolPool ==
    { PlainSection,
      [PlainSection EXCEPT !.path = <<"d", "/", "b">>, !.desc = "text"],
      [PlainSection EXCEPT !.marker = "missing"] }

ToolPlans == UNION {[1..n -> ToolPool] : n \in 0..MaxRecords}

\* the disks a call can start on
StartDisks(input_text) ==
    { [dirs |-> d, files |-> f] :
        d \in {{}, {ROOT}},
        f \in { <<>>,
                (INPUT :> input_text),
                (OLD_FILE :> <<"o">>),
                (INPUT :> input_text) @@ (OLD_FILE :> <<"o">>) } }

DiskOk(disk) == OLD_FILE \in DOMAIN disk.files => ROOT \in disk.dirs

\* arguments is None (given is FALSE) or a dict; a key that is absent reads as
\* the empty text, as arguments.get does
NoArguments == [given |-> FALSE, input_file_path |-> <<>>, root_directory |-> <<>>]
ArgumentSets ==
    {NoArguments} \cup
    { [given |-> TRUE, input_file_path |-> i, root_directory |-> r] :
        i \in {<<>>, INPUT}, r \in {<<>>, ROOT} }

WriterInit ==
    /\ pc = "w_call"
    /\ call = "writer"
    /\ plan = <<>>
    /\ md_content = <<>>
    /\ ParserIdle
    /\ fs0 \in {d \in StartDisks(<<>>) : DiskOk(d) /\ INPUT \notin DOMAIN d.files}
    /\ fs_dirs = fs0.dirs
    /\ fs_files = fs0.files
    /\ parsed_data \in RecordLists
    /\ base_dir \in {ROOT, <<".">>}
    /\ rec_i = 0
    /\ results = <<>>
    /\ created_files = 0
    /\ failed_files = 0
    /\ io_log = <<>>
    /\ creation_result = NoText
    /\ ToolIdle

ToolInit ==
    /\ pc = "t_call"
    /\ call = "tool"
    /\ plan \in ToolPlans
    /\ md_content = <<>>
    /\ ParserIdle
    /\ fs0 \in {d \in StartDisks(PlanText(plan)) : DiskOk(d)}
    /\ fs_dirs = fs0.dirs
    /\ fs_files = fs0.files
    /\ WriterIdle
    /\ name \in {TOOL_NAME, "other_tool"}
    /\ arguments \in ArgumentSets
    /\ output_msg = NoText
    /\ gen_outcome = "none"
    /\ gen_result = [raised |-> FALSE, text |-> NoText]
    /\ tool_result = [isError |-> FALSE, text |-> NoText]

Init == WriterInit \/ ToolInit

\* create_files_from_parsed_data, lines 286-288: nothing to create
CreateFilesEmptyMakesBase ==
    /\ pc = "w_call"
    /\ NothingToCreate(parsed_data)
    /\ creation_result' = NOTHING_MSG
    /\ fs_dirs' = fs_dirs \cup {base_dir}
    /\ pc' = IF call = "writer" THEN "w_done" ELSE "g_created"
    /\ UNCHANGED <<call, parserVars, fs_files, fs0, toolVars>>
    /\ UNCHANGED <<parsed_data, base_dir, rec_i, results, created_files,
                   failed_files, io_log>>
CreateFilesEmpty ==
    /\ pc = "w_call"
    /\ NothingToCreate(parsed_data)
    /\ creation_result' = NOTHING_MSG
    /\ pc' = IF call = "writer" THEN "w_done" ELSE "g_created"
    /\ UNCHANGED <<call, parserVars, fsVars, toolVars>>
    /\ UNCHANGED <<parsed_data, base_dir, rec_i, results, created_files,
                   failed_files, io_log>>

\* lines 290-293
CreateFilesBegin ==
    /\ pc = "w_call"
    /\ ~NothingToCreate(parsed_data)
    /\ results' = <<SEPARATOR>>
    /\ created_files' = 0
    /\ failed_files' = 0
    /\ rec_i' = 1
    /\ pc' = "w_loop"
    /\ UNCHANGED <<call, parserVars, fsVars, toolVars>>
    /\ UNCHANGED <<parsed_data, base_dir, io_log, creation_result>>

\* lines 295-332: one pass of the loop
CreateFileStep ==
    /\ pc = "w_loop"
    /\ rec_i <= Len(parsed_data)
    /\ LET file_info == parsed_data[rec_i]
           relative_filepath == file_info.filepath
           filepath == path_join(base_dir, relative_filepath)
           content == file_info.content
           dir_name == dirname(filepath)
       IN  \E mk \in (IF dir_name # <<>>
                      THEN MakeDirsOutcomes(fs_dirs, fs_files, dir_name)
                      ELSE {[dirs |-> fs_dirs, status |-> "skipped"]}) :
           \E wr \in OpenWriteOutcomes(mk.dirs, fs_files, filepath, content) :
              /\ fs_dirs' = mk.dirs
              /\ fs_files' = wr.files
              /\ io_log' = Append(io_log, [mkdir |-> mk.status, err |-> wr.err])
              /\ IF wr.err = "none"
                 THEN /\ created_files' = created_files + 1
                      /\ failed_files' = failed_files
                      /\ results' = results \o SuccessBlock(file_info, filepath)
                 ELSE /\ created_files' = created_files
                      /\ failed_files' = failed_files + 1
                      /\ results' = Append(results, ErrorLine(filepath, wr.err))
              /\ rec_i' = NextRecord(rec_i, Len(parsed_data), wr.err # "none")
    /\ UNCHANGED <<pc, call, parserVars, fs0, toolVars>>
    /\ UNCHANGED <<parsed_data, base_dir, creation_result>>

\* lines 334-335
CreateFilesReturn ==
    /\ pc = "w_loop"
    /\ rec_i > Len(parsed_data)
    /\ creation_result' = Join(results, NL)
    /\ pc' = IF call = "writer" THEN "w_done" ELSE "g_created"
    /\ UNCHANGED <<call, parserVars, fsVars, toolVars>>
    /\ UNCHANGED <<parsed_data, base_dir, rec_i, results, created_files,
                   failed_files, io_log>>

WriterNext ==
    CreateFilesEmpty \/ CreateFilesBegin \/ CreateFileStep \/ CreateFilesReturn

(***************************************************************************)
(* handle_call_tool and generate_files_from_markdown                       *)
(***************************************************************************)
\* handle_call_tool, lines 112-139: the checks that raise ValueError, then the
\* call of generate_files_from_markdown
HandleCallTool ==
    /\ pc = "t_call"
    /\ pc' = IF \/ name # TOOL_NAME
                \/ ~arguments.given
                \/ arguments.input_file_path = <<>>
                \/ arguments.root_directory = <<>>
             THEN "t_raised"
             ELSE "g_check"
    /\ UNCHANGED <<call, parserVars, fsVars, writerVars, toolVars>>

\* what the except of line 402 returns for an exception of text e
Caught(e) == [raised |-> FALSE, text |-> ErrorOccurred(e)]

\* generate_files_from_markdown, lines 354-360 (and 402-405 when it raises)
GenCheckInputAfterRoot ==
    /\ pc = "g_check"
    /\ IF arguments.input_file_path \in DOMAIN fs_files
       THEN /\ pc' = "g_read"
            /\ UNCHANGED <<gen_outcome, gen_result, fs_dirs>>
       ELSE /\ gen_outcome' = "not_found"
            /\ gen_result' = Caught(NotFoundMsg(arguments.input_file_path))
            /\ fs_dirs' = fs_dirs \cup {arguments.root_directory}
            /\ pc' = "g_done"
    /\ UNCHANGED <<call, parserVars, fs_files, fs0, writerVars>>
    /\ UNCHANGED <<name, arguments, output_msg, tool_result>>
GenCheckInput ==
    /\ pc = "g_check"
    /\ IF arguments.input_file_path \in DOMAIN fs_files
       THEN /\ pc' = "g_read"
            /\ UNCHANGED <<gen_outcome, gen_result>>
       ELSE /\ gen_outcome' = "not_found"
            /\ gen_result' = Caught(NotFoundMsg(arguments.input_file_path))
            /\ pc' = "g_done"
    /\ UNCHANGED <<call, parserVars, fsVars, writerVars>>
    /\ UNCHANGED <<name, arguments, output_msg, tool_result>>

\* lines 362-366: the read succeeds, or raises and line 402 catches it
GenRead ==
    /\ pc = "g_read"
    /\ \/ /\ md_content' = fs_files[arguments.input_file_path]
          /\ pc' = "g_root"
          /\ UNCHANGED <<gen_outcome, gen_result>>
       \/ /\ gen_outcome' = "unreadable"
          /\ gen_result' = Caught(<<"EACCES">>)
          /\ pc' = "g_done"
          /\ UNCHANGED md_content
    /\ UNCHANGED <<call, plan, all_sections, sec_i, outcomes, files_to_create>>
    /\ UNCHANGED <<fsVars, writerVars, name, arguments, output_msg, tool_result>>

\* lines 368-379
GenRoot ==
    /\ pc = "g_root"
    /\ IF ~DirExists(fs_dirs, arguments.root_directory)
       THEN \E mk \in MakeDirsOutcomes(fs_dirs, fs_files, arguments.root_directory) :
              /\ fs_dirs' = mk.dirs
              /\ IF mk.status = "ok"
                 THEN /\ output_msg' = RootCreatedMsg(arguments.root_directory)
                      /\ pc' = "g_parse"
                      /\ UNCHANGED <<gen_outcome, gen_result>>
                 ELSE /\ gen_outcome' = "root_failed"
                      /\ gen_result' = Caught(<<"EACCES">>)
                      /\ pc' = "g_done"
                      /\ UNCHANGED output_msg
       ELSE /\ output_msg' = RootExistsMsg(arguments.root_directory)
            /\ pc' = "g_parse"
            /\ UNCHANGED <<fs_dirs, gen_outcome, gen_result>>
    /\ UNCHANGED <<call, parserVars, fs_files, fs0, writerVars>>
    /\ UNCHANGED <<name, arguments, tool_result>>

\* lines 381-394: the parse, then the return of line 388 or the call of the writer
GenParse ==
    /\ pc = "g_parse"
    /\ LET parsed_files == parse_input_md_sections(md_content)
       IN  IF parsed_files = <<>>
           THEN /\ gen_outcome' = "zero_records"
                /\ gen_result' =
                      [raised |-> FALSE,
                       text |-> NothingParsedMsg(arguments.input_file_path)]
                /\ pc' = "g_done"
                /\ UNCHANGED <<parsed_data, base_dir>>
           ELSE /\ parsed_data' = parsed_files
                /\ base_dir' = arguments.root_directory
                /\ pc' = "w_call"
                /\ UNCHANGED <<gen_outcome, gen_result>>
    /\ UNCHANGED <<call, parserVars, fsVars>>
    /\ UNCHANGED <<rec_i, results, created_files, failed_files, io_log,
                   creation_result>>
    /\ UNCHANGED <<name, arguments, output_msg, tool_result>>

\* lines 396-400
GenReturn ==
    /\ pc = "g_created"
    /\ gen_outcome' = "completed"
    /\ gen_result' =
          [raised |-> FALSE,
           text |-> output_msg \o creation_result \o NL \o NL \o COMPLETED_MSG]
    /\ pc' = "g_done"
    /\ UNCHANGED <<call, parserVars, fsVars, writerVars>>
    /\ UNCHANGED <<name, arguments, output_msg, tool_result>>

\* handle_call_tool, lines 140-149: the result, flagged only when
\* generate_files_from_markdown raised
HandleReturn ==
    /\ pc = "g_done"
    /\ tool_result' =
          IF gen_result.raised
          THEN [isError |-> TRUE, text |-> <<"E", "r", "r", "o", "r", ":", " ">>
                                           \o gen_result.text]
          ELSE [isError |-> FALSE, text |-> gen_result.text]
    /\ pc' = "t_returned"
    /\ UNCHANGED <<call, parserVars, fsVars, writerVars>>
    /\ UNCHANGED <<name, arguments, output_msg, gen_outcome, gen_result>>

ToolNext ==
    \/ HandleCallTool
    \/ GenCheckInput
    \/ GenRead
    \/ GenRoot
    \/ GenParse
    \/ GenReturn
    \/ HandleReturn

Next == WriterNext \/ ToolNext
Spec == Init /\ [][Next]_vars

(***************************************************************************)
(* Properties of the parser, checked under SpecParse.                      *)
(***************************************************************************)
ParseDone == pc = "p_done"
AllWellFormed == \A i \in 1..Len(plan) : WellFormed(plan[i])

\* C1: a document made of N well-formed sections parses to exactly N records,
\* the i-th carrying the path and the trimmed fence content of the i-th section.
C1_WellFormedSectionsYieldRecordsInOrder ==
    (ParseDone /\ AllWellFormed) =>
        /\ Len(files_to_create) = Len(plan)
        /\ \A i \in 1..Len(plan) :
              /\ files_to_create[i].filepath = plan[i].path
              /\ files_to_create[i].content = plan[i].inner.trimmed

C1_Witness ==
    /\ ParseDone
    /\ AllWellFormed
    /\ Len(plan) >= 2
    /\ plan[1].path # plan[2].path
    /\ Len(files_to_create) = Len(plan)
    /\ files_to_create[2].content = <<"x", "\n", "\n", "y">>

RECURSIVE WithoutBad(_)
WithoutBad(p) ==
    IF p = <<>> THEN <<>>
    ELSE (IF BadSection(Head(p)) THEN <<>> ELSE <<Head(p)>>) \o WithoutBad(Tail(p))

\* C2: a section without its marker, without a well-formed fence or with empty
\* trimmed content gives no record, and the records of the document are those
\* of the same document with the bad sections taken out.
C2_BadSectionsAreSkippedAlone ==
    ParseDone =>
        /\ files_to_create = parse_input_md_sections(PlanText(WithoutBad(plan)))
        /\ Len(files_to_create) <= Len(WithoutBad(plan))

C2_Witness ==
    /\ ParseDone
    /\ Len(plan) = 3
    /\ WellFormed(plan[1])
    /\ BadSection(plan[2])
    /\ WellFormed(plan[3])
    /\ Len(files_to_create) = 2
    /\ "warn_no_marker" \in Range(outcomes)

\* C9: the change description of a record is the trimmed text written after
\* the change heading, up to the next marker or fence opening line, and
\* nothing when the section has no change heading.
C9_ChangeDescriptionStopsAtMarkerOrFence ==
    (ParseDone /\ Len(files_to_create) = Len(plan)) =>
        \A i \in 1..Len(plan) :
            files_to_create[i].change_description = WrittenDesc(plan[i])

\* a section whose marker is directly followed by one fenced block that closes
\* with the token it opens with
FencedSection(s) == s.marker \in {"ok", "blank"} /\ s.form \in {"ok", "close_ws"}

OneRecordWithContent(s) ==
    /\ Len(files_to_create) = 1
    /\ files_to_create[1].content = s.inner.trimmed

\* C10 as stated, for sections with text between the fence lines: a fence of
\* three or more backticks, with or without a language tag, gives a record
\* with the trimmed text between the fence lines.
C10_AnyFenceOfThreeOrMoreBackticksAccepted ==
    (/\ ParseDone
     /\ Len(plan) = 1
     /\ FencedSection(plan[1])
     /\ plan[1].inner.trimmed # <<>>) =>
        OneRecordWithContent(plan[1])

\* C10 as amended: a fence of exactly three backticks, with or without a
\* language tag, around text that does not trim to nothing gives a record with
\* that trimmed text; a fence of more backticks gives no record.
C10_FenceOfExactlyThreeBackticksAccepted ==
    (ParseDone /\ Len(plan) = 1 /\ FencedSection(plan[1])) =>
        /\ (plan[1].ticks = 3 /\ plan[1].inner.trimmed # <<>>)
              => OneRecordWithContent(plan[1])
        /\ plan[1].ticks > 3 => files_to_create = <<>>

C10_Witness ==
    /\ ParseDone
    /\ Len(plan) = 1
    /\ FencedSection(plan[1])
    /\ plan[1].ticks = 3
    /\ plan[1].lang = <<"t", "-", "1", ".", "x", "_">>
    /\ plan[1].form = "close_ws"
    /\ OneRecordWithContent(plan[1])

\* C11: a section gives at most one record, and gives one only when exactly one
\* fenced block, and nothing else, lies between its marker and its end: with
\* two fenced blocks there, or with text before or after the block, the
\* section gives no record.
C11_RecordOnlyForExactlyOneFencedBlock ==
    ParseDone =>
        /\ Len(files_to_create) <= Len(plan)
        /\ Len(plan) = 1 =>
              /\ files_to_create # <<>> => FencedSection(plan[1])
              /\ plan[1].form \in {"two_blocks", "text_before", "text_after"}
                    => files_to_create = <<>>

(***************************************************************************)
(* Properties of the writer and of the tool call, checked under Spec.      *)
(***************************************************************************)
\* create_files_from_parsed_data has returned
WriterDone == pc \in {"w_done", "g_created", "g_done", "t_returned"} /\ rec_i > 0
NRecords == Len(parsed_data)
Resolved(k) == path_join(base_dir, parsed_data[k].filepath)
RecordFailed(k) == io_log[k].mkdir = "failed" \/ io_log[k].err # "none"
DiskUnchanged == fs_dirs = fs0.dirs /\ fs_files = fs0.files

\* the number of report lines of record k
BlockLen(k) ==
    IF io_log[k].err # "none" THEN 1
    ELSE IF parsed_data[k].change_description # <<>> THEN 6 ELSE 3

RECURSIVE BlockStart(_)
\* the index in results of the first line of record k
BlockStart(k) == IF k = 1 THEN 2 ELSE BlockStart(k - 1) + BlockLen(k - 1)

\* C3 as stated: the result is flagged as an error exactly when the whole
\* operation failed (input not found, zero records parsed), never otherwise.
C3_IsErrorExactlyForWholeOperationFailures ==
    pc = "t_returned" =>
        (tool_result.isError <=>
            gen_outcome \in {"not_found", "unreadable", "root_failed", "zero_records"})

AllWritten == \A k \in 1..Len(io_log) : io_log[k].err = "none"
LastWithPath(k) == Max({j \in 1..NRecords : Resolved(j) = Resolved(k)})

\* C5: when every write succeeds, every record is written and each file holds
\* exactly the content of the last record of its path.
C5_LastWriteWinsByteForByte ==
    (WriterDone /\ AllWritten) =>
        /\ created_files = NRecords
        /\ \A k \in 1..NRecords :
              /\ Resolved(k) \in DOMAIN fs_files
              /\ fs_files[Resolved(k)] = parsed_data[LastWithPath(k)].content

C5_Witness ==
    /\ WriterDone
    /\ AllWritten
    /\ NRecords = 2
    /\ Resolved(1) = Resolved(2)
    /\ parsed_data[1].content # parsed_data[2].content
    /\ Resolved(1) \in DOMAIN fs0.files
    /\ fs_files[Resolved(1)] = parsed_data[2].content

\* C6: called with no records, the writer returns the fixed message and
\* creates no directory and writes no file.
C6_EmptyListTouchesNothing ==
    (call = "writer" /\ parsed_data = <<>>) =>
        /\ DiskUnchanged
        /\ pc \in {"w_call", "w_done"}
        /\ pc = "w_done" => creation_result = NOTHING_MSG

C6_Witness ==
    /\ call = "writer"
    /\ parsed_data = <<>>
    /\ pc = "w_done"
    /\ base_dir = ROOT
    /\ ROOT \notin fs_dirs

InputMissing ==
    /\ call = "tool"
    /\ pc \notin {"t_call", "t_raised"}
    /\ arguments.input_file_path \notin DOMAIN fs0.files

\* C7: when the input file does not exist the operation ends with the not
\* found message, and no directory is created and no file written.
C7_MissingInputCreatesNothing ==
    InputMissing =>
        /\ DiskUnchanged
        /\ pc \in {"g_check", "g_done", "t_returned"}
        /\ pc \in {"g_done", "t_returned"} =>
              /\ gen_outcome = "not_found"
              /\ gen_result.text =
                    ErrorOccurred(NotFoundMsg(arguments.input_file_path))

C7_Witness ==
    /\ InputMissing
    /\ pc = "t_returned"
    /\ ROOT \notin fs_dirs
    /\ tool_result.text = ErrorOccurred(NotFoundMsg(INPUT))

RECURSIVE ExpectedBlocks(_)
\* the report lines of the records from k on
ExpectedBlocks(k) ==
    IF k > NRecords THEN <<>>
    ELSE (IF io_log[k].err # "none"
          THEN <<ErrorLine(Resolved(k), io_log[k].err)>>
          ELSE <<HeaderLine(parsed_data[k].filepath), CREATED_MSG, Resolved(k)>>
               \o (IF parsed_data[k].change_description # <<>>
                   THEN <<DESC_HEADER, parsed_data[k].change_description, SEPARATOR>>
                   ELSE <<>>))
         \o ExpectedBlocks(k + 1)

\* C8: the report is a separator line, then one block per record in input
\* order; the block of a written record is the path header, the fixed message
\* and the resolved path, then the change description and a separator line if
\* and only if the change description is not empty.
C8_ReportHasOneBlockPerRecord ==
    (WriterDone /\ Len(io_log) = NRecords) =>
        creation_result = Join(<<SEPARATOR>> \o ExpectedBlocks(1), NL)

C8_Witness ==
    /\ WriterDone
    /\ NRecords = 2
    /\ AllWritten
    /\ Len(io_log) = 2
    /\ parsed_data[1].change_description # <<>>
    /\ parsed_data[2].change_description = <<>>
    /\ Len(results) = 10
====
